---- MODULE Spec2Model ----
(***************************************************************************)
(* AmazonService.searchProducts / getItemsDetails of the affiliate-content *)
(* pipeline, in its two revisions:                                         *)
(*   "cache"   src/unnamed/part_002 (5 pages, cap 50, dedup, pre-filter,   *)
(*             Detail Cache, score-first sort)                             *)
(*   "nocache" src/server/services/amazon-service.ts (10 pages, no cap,    *)
(*             no dedup, no cache, rank-first sort)                        *)
(* Strings are tuples of one-character strings, optional values are        *)
(* <<>> (undefined / null) or <<v>>.                                       *)
(***************************************************************************)
EXTENDS Integers, Sequences, FiniteSets, TLC

\* ---------------------------------------------------------------- bounds
MaxRuns == 2

MaxFaults == 1

MaxCount == 3

\* ------------------------------------------------------ program constants
PageSizeRequested == 10

HardCap == 50

MaxPagesCache == 5

MaxPagesNoCache == 10

BatchSize == 10

RankLimit == 10000

PacingMs == 1100

\* JavaScript Infinity, above every sales rank of the catalog
Infinity == 1000000000

\* ------------------------------------------------------------- optionals
None == <<>>

Some(v) == <<v>>

\* x ?? d
OrElse(x, d) == IF x = None THEN d ELSE x[1]

Min(a, b) == IF a < b THEN a ELSE b

\* --------------------------------------------------------------- strings
UpperChars == <<"A", "B", "C", "D", "E", "F", "G", "H", "I", "J", "K", "L", "M", "N", "O", "P", "Q", "R", "S", "T", "U", "V", "W", "X", "Y", "Z">>

LowerChars == <<"a", "b", "c", "d", "e", "f", "g", "h", "i", "j", "k", "l", "m", "n", "o", "p", "q", "r", "s", "t", "u", "v", "w", "x", "y", "z">>

DigitChars == <<"0", "1", "2", "3", "4", "5", "6", "7", "8", "9">>

Range(s) == {s[i] : i \in 1..Len(s)}

\* the lower-case form of every upper-case letter
LowerOf == [c \in Range(UpperChars) |-> LowerChars[CHOOSE i \in 1..26 : UpperChars[i] = c]]

UpperOf == [c \in Range(LowerChars) |-> UpperChars[CHOOSE i \in 1..26 : LowerChars[i] = c]]

LowerChar(c) == IF c \in DOMAIN LowerOf THEN LowerOf[c] ELSE c

UpperChar(c) == IF c \in DOMAIN UpperOf THEN UpperOf[c] ELSE c

\* String.prototype.toLowerCase
ToLowerCase(s) == [i \in 1..Len(s) |-> LowerChar(s[i])]

\* String.prototype.toUpperCase
ToUpperCase(s) == [i \in 1..Len(s) |-> UpperChar(s[i])]

\* String.prototype.includes
Includes(s, w) == \E i \in 0..(Len(s) - Len(w)) : SubSeq(s, i + 1, i + Len(w)) = w

\* String.prototype.split(" "): every separator cuts, empty pieces are kept
RECURSIVE SplitFrom(_, _, _)
SplitFrom(s, i, cur) ==
  IF i > Len(s) THEN <<cur>>
  ELSE IF s[i] = " " THEN <<cur>> \o SplitFrom(s, i + 1, <<>>)
  ELSE SplitFrom(s, i + 1, Append(cur, s[i]))

Split(s) == SplitFrom(s, 1, <<>>)

\* Array.prototype.join
RECURSIVE Join(_, _)
Join(parts, sep) ==
  IF parts = <<>> THEN <<>>
  ELSE IF Len(parts) = 1 THEN parts[1]
  ELSE parts[1] \o sep \o Join(Tail(parts), sep)

\* \w of a regular expression
WordChars == Range(UpperChars) \cup Range(LowerChars) \cup Range(DigitChars) \cup {"_"}

IsWordChar(c) == c \in WordChars

\* s matches /\b w \b/ for a word w made of word characters
MatchesWord(s, w) ==
  \E i \in 0..(Len(s) - Len(w)) :
    /\ SubSeq(s, i + 1, i + Len(w)) = w
    /\ (i = 0 \/ ~IsWordChar(s[i]))
    /\ (i + Len(w) = Len(s) \/ ~IsWordChar(s[i + Len(w) + 1]))

kwSecurityCamera == <<"S", "e", "c", "u", "r", "i", "t", "y", " ", "C", "a", "m", "e", "r", "a">>

kwCameraMount == <<"c", "a", "m", "e", "r", "a", " ", "m", "o", "u", "n", "t">>

sMount == <<"m", "o", "u", "n", "t">>

sCase == <<"c", "a", "s", "e">>

sAccessory == <<"a", "c", "c", "e", "s", "s", "o", "r", "y">>

sInstallationKit == <<"i", "n", "s", "t", "a", "l", "l", "a", "t", "i", "o", "n", " ", "k", "i", "t">>

sNew == <<"N", "e", "w">>

sNewUpper == <<"N", "E", "W">>

sUsed == <<"U", "s", "e", "d">>

sNewLower == <<"n", "e", "w">>

sNow == <<"N", "o", "w">>

sNOW == <<"N", "O", "W">>

sINSTOCK == <<"I", "N", "_", "S", "T", "O", "C", "K">>

sOutOfStock == <<"O", "u", "t", "O", "f", "S", "t", "o", "c", "k">>

sJoiner == <<";", " ">>

kwCameraCamera == <<"c", "a", "m", "e", "r", "a", " ", "c", "a", "m", "e", "r", "a">>

kwSecurityCameraWide == <<"s", "e", "c", "u", "r", "i", "t", "y", " ", " ", "c", "a", "m", "e", "r", "a">>

kwMountTrailing == <<"m", "o", "u", "n", "t", " ">>

kwDoorbell == <<"d", "o", "o", "r", "b", "e", "l", "l">>

kwInstallationKit == <<"I", "n", "s", "t", "a", "l", "l", "a", "t", "i", "o", "n", " ", "K", "i", "t">>

title16 == <<"C", "a", "m", "e", "r", "a", " ", "I", "n", "s", "t", "a", "l", "l", "a", "t", "i", "o", "n", " ", "K", "i", "t">>

title17 == <<"L", "e", "n", "s", " ", "A", "C", "C", "E", "S", "S", "O", "R", "Y", " ", "S", "e", "t">>

title1 == <<"W", "i", "r", "e", "l", "e", "s", "s", " ", "S", "e", "c", "u", "r", "i", "t", "y", " ", "C", "a", "m", "e", "r", "a">>

title2 == <<"S", "e", "c", "u", "r", "i", "t", "y", " ", "C", "a", "m", "e", "r", "a", " ", "P", "r", "o">>

title3 == <<"C", "a", "m", "e", "r", "a", " ", "K", "i", "t">>

title4 == <<"D", "o", "m", "e", " ", "C", "a", "m", "e", "r", "a">>

title5 == <<"S", "e", "c", "u", "r", "i", "t", "y", " ", "C", "a", "m", "e", "r", "a", " ", "X">>

title6 == <<"C", "a", "m", "e", "r", "a", " ", "W", "a", "l", "l", " ", "M", "o", "u", "n", "t">>

title7 == <<"C", "a", "m", "e", "r", "a", " ", "M", "o", "u", "n", "t", "i", "n", "g", " ", "B", "r", "a", "c", "k", "e", "t">>

title8 == <<"S", "e", "c", "u", "r", "i", "t", "y", " ", "C", "a", "m", "e", "r", "a", " ", "U", "s", "e", "d">>

title9 == <<"S", "e", "c", "u", "r", "i", "t", "y", " ", "C", "a", "m", "e", "r", "a", " ", "B">>

title10 == <<"S", "e", "c", "u", "r", "i", "t", "y", " ", "C", "a", "m", "e", "r", "a", " ", "R">>

title11 == <<"S", "e", "c", "u", "r", "i", "t", "y", " ", "C", "a", "m", "e", "r", "a", " ", "T">>

title12 == <<"S", "e", "c", "u", "r", "i", "t", "y", " ", "C", "a", "m", "e", "r", "a", " ", "O">>

title13 == <<"D", "o", "o", "r", "b", "e", "l", "l">>

title14 == <<"S", "e", "c", "u", "r", "i", "t", "y", " ", "C", "a", "m", "e", "r", "a", " ", "S">>

title15 == <<"S", "e", "c", "u", "r", "i", "t", "y", " ", "C", "a", "m", "e", "r", "a", " ", "N">>

\* ------------------------------------------------------ JavaScript objects
\* An object is a function from property names to values; a property that
\* is undefined or null is left out.  Get reads a property as an optional.
Get(o, k) == IF k \in DOMAIN o THEN Some(o[k]) ELSE None

\* o with property k set to the optional v (left out when v is undefined)
With(o, k, v) == IF v = None THEN [x \in DOMAIN o \ {k} |-> o[x]] ELSE (k :> v[1]) @@ o

\* ------------------------------------------------------ upstream catalog
feat == << <<"H", "D">>, <<"4", "K">> >>

\* one catalog entry of the provider: s* fields are what SearchItems shows,
\* the others what GetItems shows
Entry(t, r, p) ==
  [title |-> Some(t), listing |-> TRUE, sPrice |-> Some("$10"), sAvail |-> Some(sNow),
   price |-> Some("$10"), avail |-> Some(sNow), bbw |-> Some(TRUE), prime |-> Some(p),
   cond |-> Some(sNew), rank |-> Some(r), image |-> Some("img"), features |-> feat]

Catalog ==
  << Entry(title1, 500, FALSE),
     Entry(title2, 200, FALSE),
     Entry(title3, 50, TRUE),
     Entry(title4, 9999, TRUE),
     Entry(title5, 200, TRUE),
     Entry(title6, 300, TRUE),
     Entry(title7, 400, TRUE),
     [Entry(title8, 100, TRUE) EXCEPT !.cond = Some(sUsed)],
     [Entry(title9, 100, TRUE) EXCEPT !.bbw = Some(FALSE)],
     [Entry(title10, 100, TRUE) EXCEPT !.rank = None],
     Entry(title11, 10000, TRUE),
     [Entry(title12, 100, TRUE) EXCEPT !.avail = Some(sOutOfStock)],
     Entry(title13, 10, TRUE),
     [Entry(title14, 200, TRUE) EXCEPT !.cond = Some(sNewUpper), !.avail = Some(sINSTOCK), !.sAvail = Some(sINSTOCK)],
     [Entry(title15, 100, TRUE) EXCEPT !.sPrice = None],
     [Entry(title15, 100, TRUE) EXCEPT !.title = None, !.image = None, !.bbw = None, !.prime = None] >>
  \o [i \in 1..11 |-> Entry(title2, 1000 + i, FALSE)]

NumProducts == Len(Catalog)

Asins == 1..NumProducts

\* lengths of the provider's result list for a keyword
Totals == {0, 4, 16, 52}

Keywords == {kwSecurityCamera, kwCameraMount}

\* the asin at position k of the provider's result list (the catalog, repeated)
ResultAt(k) == ((k - 1) % NumProducts) + 1

\* the item of data.SearchResult.Items that carries asin a
SearchItem(a) ==
  LET e == Catalog[a] IN
  [ASIN |-> a, title |-> e.title, listing |-> e.listing, price |-> e.sPrice, avail |-> e.sAvail]

\* the asins of the items of that page; the item of an asin is SearchItem(asin)
UpstreamPage(n, p) ==
  LET first == (p - 1) * PageSizeRequested + 1
      last == Min(p * PageSizeRequested, n)
  IN [i \in 1..(IF last >= first THEN last - first + 1 ELSE 0) |-> ResultAt(first + i - 1)]

\* ------------------------------------------------ searchProducts, steps 2-3
RECURSIVE UniqueByAsin(_, _)
UniqueByAsin(items, seen) ==
  IF items = <<>> THEN <<>>
  ELSE IF SearchItem(items[1]).ASIN \in seen THEN UniqueByAsin(Tail(items), seen)
  ELSE <<items[1]>> \o UniqueByAsin(Tail(items), seen \cup {SearchItem(items[1]).ASIN})

AvailableNow == {sNOW, sINSTOCK}

InStockWithPrice(item) ==
  /\ item.listing
  /\ item.price # None
  /\ item.avail # None
  /\ ToUpperCase(item.avail[1]) \in AvailableNow

AccessoryPattern == {sMount, sCase, sAccessory}

NotAccessoryTitle(item) ==
  LET title == ToLowerCase(OrElse(item.title, <<>>))
  IN ~\E w \in AccessoryPattern : MatchesWord(title, w)

PreFilter(items) ==
  SelectSeq(SelectSeq(UniqueByAsin(items, {}), LAMBDA a : InStockWithPrice(SearchItem(a))),
            LAMBDA a : NotAccessoryTitle(SearchItem(a)))

MapAsin(items) == [i \in 1..Len(items) |-> SearchItem(items[i]).ASIN]

\* the ids searchProducts passes to getItemsDetails
AllAsins(rev, items) == IF rev = "cache" THEN MapAsin(PreFilter(items)) ELSE MapAsin(items)

\* ---------------------------------------------------------- getItemsDetails
PartnerTag == "tag-20"

AffiliateLink(a) == <<"https://www.amazon.com/dp/", a, "?tag=", PartnerTag>>

\* the AmazonProduct built from one item of a GetItems response
ParseItem(rev, a) ==
  LET e == Catalog[a]
      offerPrice == IF e.listing THEN e.price ELSE None
      base == [asin |-> a,
               description |-> Join(e.features, sJoiner),
               isBuyBoxWinner |-> OrElse(IF e.listing THEN e.bbw ELSE None, FALSE),
               isPrimeEligible |-> OrElse(IF e.listing THEN e.prime ELSE None, FALSE),
               condition |-> OrElse(IF e.listing THEN e.cond ELSE None, <<>>),
               availabilityType |-> OrElse(IF e.listing THEN e.avail ELSE None, <<>>),
               affiliateLink |-> AffiliateLink(a)]
      withOpt == With(With(base, "price", offerPrice), "salesRank", e.rank)
  IN IF rev = "cache"
     THEN With(With(withOpt, "title", Some(OrElse(e.title, <<>>))), "imageUrl", Some(OrElse(e.image, "")))
     ELSE With(With(withOpt, "title", e.title), "imageUrl", e.image)

\* the object getItemsDetails hands to storage.saveProductDetails
SaveArgument(prod) ==
  With(With(With(With(With(With(With(
    [asin |-> prod.asin, title |-> prod.title, description |-> prod.description],
    "image_url", Get(prod, "imageUrl")),
    "price", Get(prod, "price")),
    "is_buy_box_winner", Get(prod, "isBuyBoxWinner")),
    "is_prime_eligible", Get(prod, "isPrimeEligible")),
    "condition", Get(prod, "condition")),
    "availability_type", Get(prod, "availabilityType")),
    "sales_rank", Get(prod, "salesRank"))

\* property names of the productDetails table
Columns == {"asin", "title", "description", "imageUrl", "price", "isBuyBoxWinner",
            "isPrimeEligible", "condition", "availabilityType", "salesRank"}

\* the row an insert / update of productDetails takes from an object: the
\* properties named like a column, every other column stays null
RowOf(details) == [k \in Columns \cap DOMAIN details |-> details[k]]

\* storage.saveProductDetails: insert, or on conflict set the given columns
SaveProductDetails(c, details) ==
  LET a == details.asin
  IN [c EXCEPT ![a] = IF c[a] = None THEN Some(RowOf(details)) ELSE Some(RowOf(details) @@ c[a][1])]

\* storage.getProductDetails
GetProductDetails(c, a) == c[a]

\* a batch whose products are pushed without being saved
SaveNone(c, prods) == c

RECURSIVE SaveAll(_, _)
SaveAll(c, prods) ==
  IF prods = <<>> THEN c ELSE SaveAll(SaveProductDetails(c, SaveArgument(prods[1])), Tail(prods))

\* step 1 of getItemsDetails: cached rows first, the rest to fetch
CachedResults(c, asins) ==
  LET hit == SelectSeq(asins, LAMBDA a : GetProductDetails(c, a) # None)
  IN [i \in 1..Len(hit) |-> GetProductDetails(c, hit[i])[1]]

UncachedAsins(c, asins) == SelectSeq(asins, LAMBDA a : GetProductDetails(c, a) = None)

\* a slice that runs one id into the next batch
BatchAtOverlap(asins, i) == SubSeq(asins, i + 1, Min(i + BatchSize + 1, Len(asins)))

\* asins.slice(i, i + batchSize)
BatchAt(asins, i) == SubSeq(asins, i + 1, Min(i + BatchSize, Len(asins)))

\* the products parsed from a successful GetItems response for a batch
ParseBatch(rev, batch) == [j \in 1..Len(batch) |-> ParseItem(rev, batch[j])]

\* ------------------------------------------------ Eligibility and ranking
\* scoreProduct
RECURSIVE CountMatches(_, _)
CountMatches(title, words) ==
  IF words = <<>> THEN 0
  ELSE (IF Includes(title, words[1]) THEN 1 ELSE 0) + CountMatches(title, Tail(words))

scoreProduct(product, keyword) ==
  CountMatches(ToLowerCase(product.title), Split(ToLowerCase(keyword)))

accessoryIndicators == {sMount, sAccessory, sInstallationKit}

\* a rule that looks at the title alone
isMainTitleOnly(product, primaryKeyword) ==
  ~\E ind \in accessoryIndicators : Includes(ToLowerCase(product.title), ind)

\* isMainProduct
isMainProduct(product, primaryKeyword) ==
  LET title == ToLowerCase(product.title)
      primaryIsAccessory == \E ind \in accessoryIndicators : Includes(ToLowerCase(primaryKeyword), ind)
  IN IF primaryIsAccessory THEN TRUE
     ELSE ~\E ind \in accessoryIndicators : Includes(title, ind)

\* first filter of searchProducts: a title (and an asin) is present
HasTitle(p) == Get(p, "title") # None /\ p.title # <<>>

\* the map of searchProducts: score, isMain and the defaults
Scored(p, keyword) ==
  [score |-> scoreProduct(p, keyword),
   isMain |-> isMainProduct(p, keyword),
   isBuyBoxWinner |-> OrElse(Get(p, "isBuyBoxWinner"), FALSE),
   isPrimeEligible |-> OrElse(Get(p, "isPrimeEligible"), FALSE),
   condition |-> IF Get(p, "condition") = None THEN <<>> ELSE ToLowerCase(p.condition),
   salesRank |-> OrElse(Get(p, "salesRank"), Infinity)] @@ p

ProductsWithScores(enriched, keyword) ==
  LET valid == SelectSeq(enriched, HasTitle)
  IN [i \in 1..Len(valid) |-> Scored(valid[i], keyword)]

\* the eligibility filter with the rank test off by one (> for >=)
IsEligibleRankOffByOne(p) ==
  /\ ~(p.score = 0)
  /\ p.isMain
  /\ p.isBuyBoxWinner
  /\ ~(ToLowerCase(p.condition) # sNewLower)
  /\ ~(p.salesRank > RankLimit)
  /\ ToUpperCase(OrElse(Get(p, "availabilityType"), <<>>)) \in AvailableNow

\* the eligibility filter: no rejection reason applies
IsEligible(p) ==
  /\ ~(p.score = 0)
  /\ p.isMain
  /\ p.isBuyBoxWinner
  /\ ~(ToLowerCase(p.condition) # sNewLower)
  /\ ~(p.salesRank >= RankLimit)
  /\ ToUpperCase(OrElse(Get(p, "availabilityType"), <<>>)) \in AvailableNow

\* comparator of the cache revision: score, sales rank, Prime
CompareCache(a, b) ==
  IF b.score # a.score THEN b.score - a.score
  ELSE IF a.salesRank # b.salesRank THEN a.salesRank - b.salesRank
  ELSE IF b.isPrimeEligible # a.isPrimeEligible THEN (IF b.isPrimeEligible THEN 1 ELSE -1)
  ELSE 0

\* comparator of the revision without cache: sales rank, Prime, score
CompareNoCache(a, b) ==
  IF a.salesRank # b.salesRank THEN a.salesRank - b.salesRank
  ELSE IF b.isPrimeEligible # a.isPrimeEligible THEN (IF b.isPrimeEligible THEN 1 ELSE -1)
  ELSE b.score - a.score

Compare(rev, a, b) == IF rev = "cache" THEN CompareCache(a, b) ELSE CompareNoCache(a, b)

\* Array.prototype.sort, a stable sort: x goes behind every earlier element
\* that does not compare greater than it
RECURSIVE InsertSorted(_, _, _)
InsertSorted(rev, sorted, x) ==
  IF sorted = <<>> THEN <<x>>
  ELSE LET last == sorted[Len(sorted)]
       IN IF Compare(rev, last, x) > 0
          THEN Append(InsertSorted(rev, SubSeq(sorted, 1, Len(sorted) - 1), x), last)
          ELSE Append(sorted, x)

RECURSIVE SortFrom(_, _, _)
SortFrom(rev, sorted, rest) ==
  IF rest = <<>> THEN sorted ELSE SortFrom(rev, InsertSorted(rev, sorted, rest[1]), Tail(rest))

Sort(rev, s) == SortFrom(rev, <<>>, s)

EligibleProducts(rev, scoredList) == Sort(rev, SelectSeq(scoredList, IsEligible))

\* a slice that keeps one entry too many
SliceOneMore(s, count) == SubSeq(s, 1, Min(count + 1, Len(s)))

\* eligibleProducts.slice(0, count), count >= 0
Slice(s, count) == SubSeq(s, 1, Min(count, Len(s)))

\* ================================================================ state
VARIABLES
  rev,        \* which revision of AmazonService runs
  creds,      \* the three AMAZON_* environment variables are all set
  total,      \* length of the provider's result list
  cache,      \* Detail Cache: asin -> None or Some(row of product_details)
  faults,     \* failed provider requests so far
  run,        \* invocations of the service started so far
  prev,       \* None, or Some(summary of the invocation before this one)
  pc,         \* position of the running invocation
  op,         \* the public operation invoked: "search" or "details"
  keyword, count,
  page,       \* loop variable of the page loop
  allItems,   \* raw candidates collected by the page loop (their asins)
  asins,      \* the ids passed to getItemsDetails
  results,    \* results of getItemsDetails
  uncached,   \* uncachedAsins (all asins where there is no cache)
  bi,         \* loop variable i of the batch loop
  log,        \* the sleeps and provider requests of the invocation, in order
  outcome,    \* "none", "returned" or "error"
  scored,     \* productsWithScores
  eligible,   \* eligibleProducts, sorted
  result,     \* the returned list
  cachedAtLookup, \* the input ids with a row in product_details as getItemsDetails began
  dbCalls,    \* storage calls (getProductDetails, saveProductDetails) of the invocation
  \* --- the scheduler and the invocations it starts, on a clock
  now,        \* the clock, in ms
  checks,     \* runs of checkSchedules started so far
  manual,     \* manual generation requests so far
  dbErrors,   \* storage calls of checkSchedules that threw so far
  fillers,    \* pending keywords newer than those of KeywordIds, not due
  clockOn,    \* the clock runs and the provider requests are recorded
  kstatus,    \* keyword id -> status column of the keywords table
  isProcessing, \* Scheduler.isProcessing
  active,     \* executions of checkSchedules between its guard and its finally
  pending,    \* pendingKeywords still to visit in checkSchedules
  cpc,        \* position of checkSchedules
  trig,       \* the keyword triggerKeywordGeneration read as pending, 0 if none
  runs,       \* the generateContent runs started, each with its position and facts
  calls,      \* the latest provider request: time and run
  \* --- one call of a policy function on its own
  pTitle, pKeyword, \* the arguments: product.title and the keyword
  pcall,      \* "none", or the function that was called
  pvalue,     \* what it returned
  \* --- getItemsDetails calls running at the same time
  gpc,        \* call -> its position
  gpos,       \* call -> index of the id its loop is at
  gunc,       \* call -> its uncachedAsins
  gres,       \* call -> the asins of its results
  rlog        \* the GetItems requests and cache writes of the calls, in order

envVars == <<rev, creds, total>>

schedVars == <<now, checks, manual, dbErrors, fillers, clockOn, kstatus, isProcessing, active, pending, cpc, trig, runs, calls>>

callVars == <<faults, run, prev, pc, op, keyword, count, page, allItems, asins, results, uncached, bi, log, outcome, scored, eligible, result, cachedAtLookup, dbCalls>>

searchVars == <<cache, callVars>>

policyVars == <<pTitle, pKeyword, pcall, pvalue>>

raceVars == <<gpc, gpos, gunc, gres, rlog>>

auxVars == <<policyVars, raceVars>>

vars == <<envVars, auxVars, searchVars, schedVars>>

Revisions == {"cache", "nocache"}

MaxPages(r) == IF r = "cache" THEN MaxPagesCache ELSE MaxPagesNoCache

\* keyword ids of the keywords table
KeywordIds == {1, 2}

\* rows of product_details left by earlier processes
StoredAsins == {2, 3, 5}

Preloaded == [a \in Asins |-> IF a \in StoredAsins THEN Some(RowOf(SaveArgument(ParseItem("cache", a)))) ELSE None]

\* id lists callers pass to getItemsDetails directly
DetailRequests == {<<3, 2, 5>>}

\* no scheduler activity
SchedIdle ==
  /\ now = 0
  /\ checks = 0
  /\ manual = 0
  /\ dbErrors = 0
  /\ kstatus = [k \in KeywordIds |-> "pending"]
  /\ isProcessing = FALSE
  /\ active = 0
  /\ pending = <<>>
  /\ cpc = "idle"
  /\ trig = 0
  /\ runs = <<>>
  /\ calls = <<>>

\* no invocation of the service yet
SearchIdle ==
  /\ faults = 0
  /\ run = 0
  /\ prev = None
  /\ pc = "idle"
  /\ op = "search"
  /\ keyword = <<>>
  /\ count = 0
  /\ page = 1
  /\ allItems = <<>>
  /\ asins = <<>>
  /\ results = <<>>
  /\ uncached = <<>>
  /\ bi = 0
  /\ log = <<>>
  /\ outcome = "none"
  /\ scored = <<>>
  /\ eligible = <<>>
  /\ result = <<>>
  /\ cachedAtLookup = {}
  /\ dbCalls = 0

\* no call of a policy function on its own
PolicyIdle ==
  /\ pTitle = <<>>
  /\ pKeyword = <<>>
  /\ pcall = "none"
  /\ pvalue = 0

\* the getItemsDetails calls that may run at the same time
Calls == {1, 2}

\* no such call has begun
RaceIdle ==
  /\ gpc = [i \in Calls |-> "idle"]
  /\ gpos = [i \in Calls |-> 1]
  /\ gunc = [i \in Calls |-> <<>>]
  /\ gres = [i \in Calls |-> <<>>]
  /\ rlog = <<>>

AuxIdle == PolicyIdle /\ RaceIdle

Init ==
  /\ rev \in Revisions
  /\ creds \in BOOLEAN
  /\ total \in Totals
  /\ cache \in {[a \in Asins |-> None], Preloaded}
  /\ SearchIdle
  /\ SchedIdle
  /\ fillers = 0
  /\ clockOn = FALSE
  /\ AuxIdle

SleepEntry == [op |-> "sleep", ms |-> PacingMs]

SearchEntry(p, status, n) == [op |-> "search", page |-> p, status |-> status, n |-> n]

GetItemsEntry(ids, status) == [op |-> "getitems", ids |-> ids, status |-> status]

\* every provider request of the log succeeded
Clean(l) == \A i \in 1..Len(l) : l[i].op = "sleep" \/ l[i].status = "ok"

\* the ids of the records getItemsDetails fetched from the provider
Fetched == {results[i].asin : i \in 1..Len(results)} \ cachedAtLookup

\* what is remembered of a finished invocation
Summary == [op |-> op, keyword |-> keyword, count |-> count, clean |-> Clean(log), outcome |-> outcome, result |-> result, fetched |-> Fetched]

\* the catch of searchProducts: the error is rethrown to the caller
Throw ==
  /\ outcome' = "error"
  /\ pc' = "idle"
  /\ UNCHANGED <<scored, eligible, result>>

\* steps 5-8 of searchProducts on the products getItemsDetails returned
Return(enriched) ==
  /\ scored' = ProductsWithScores(enriched, keyword)
  /\ eligible' = EligibleProducts(rev, scored')
  /\ result' = Slice(eligible', count)
  /\ outcome' = "returned"
  /\ pc' = "idle"

\* return results of getItemsDetails, to a caller other than searchProducts
ReturnDetails(enriched) ==
  /\ result' = enriched
  /\ outcome' = "returned"
  /\ pc' = "idle"
  /\ UNCHANGED <<scored, eligible>>

\* getItemsDetails returns to whoever called it
Finish(enriched) == IF op = "search" THEN Return(enriched) ELSE ReturnDetails(enriched)

\* the entry of a public operation: per-invocation state is fresh
Enter(o, kw, n) ==
  /\ pc = "idle"
  /\ run < MaxRuns
  /\ run' = run + 1
  /\ prev' = IF run = 0 THEN None ELSE Some(Summary)
  /\ op' = o
  /\ keyword' = kw
  /\ count' = n
  /\ page' = 1
  /\ allItems' = <<>>
  /\ log' = <<>>

\* getApiSettings threw: nothing else happens in the operation
SettingsMissing ==
  /\ pc' = "idle"
  /\ outcome' = "error"
  /\ asins' = <<>>
  /\ results' = <<>>
  /\ uncached' = <<>>
  /\ bi' = 0
  /\ scored' = <<>>
  /\ eligible' = <<>>
  /\ result' = <<>>
  /\ cachedAtLookup' = {}
  /\ dbCalls' = 0
  /\ UNCHANGED cache

\* an entry that goes on although the settings are missing
StartIgnoringSettings(kw, n) ==
  /\ Enter("search", kw, n)
  /\ asins' = <<>>
  /\ results' = <<>>
  /\ uncached' = <<>>
  /\ bi' = 0
  /\ scored' = <<>>
  /\ eligible' = <<>>
  /\ result' = <<>>
  /\ cachedAtLookup' = {}
  /\ dbCalls' = 0
  /\ pc' = "pageSleep"
  /\ outcome' = "none"
  /\ UNCHANGED <<envVars, auxVars, schedVars, cache, faults>>

\* searchProducts is called: getApiSettings, then the page loop starts
Start(kw, n) ==
  /\ Enter("search", kw, n)
  /\ IF creds
     THEN /\ asins' = <<>>
          /\ results' = <<>>
          /\ uncached' = <<>>
          /\ bi' = 0
          /\ scored' = <<>>
          /\ eligible' = <<>>
          /\ result' = <<>>
          /\ cachedAtLookup' = {}
          /\ dbCalls' = 0
          /\ pc' = "pageSleep"
          /\ outcome' = "none"
          /\ UNCHANGED cache
     ELSE SettingsMissing
  /\ UNCHANGED <<envVars, auxVars, schedVars, faults>>

\* await this.sleep(1100) at the top of the page loop
PageSleep ==
  /\ pc = "pageSleep"
  /\ log' = Append(log, SleepEntry)
  /\ pc' = "pageRequest"
  /\ UNCHANGED <<envVars, auxVars, schedVars, cache, faults, run, prev, op, keyword, count, page, allItems, asins, results, uncached, bi, outcome, scored, eligible, result, cachedAtLookup, dbCalls>>

\* the cached results of getItemsDetails (none where there is no cache)
CachedOf(ids) == IF rev = "cache" THEN CachedResults(cache, ids) ELSE <<>>

\* the ids getItemsDetails batches
ToFetch(ids) == IF rev = "cache" THEN UncachedAsins(cache, ids) ELSE ids

\* getItemsDetails up to its batch loop: one getProductDetails per id
Partition(ids) ==
  /\ asins' = ids
  /\ results' = CachedOf(ids)
  /\ uncached' = ToFetch(ids)
  /\ bi' = 0
  /\ cachedAtLookup' = {a \in Range(ids) : cache[a] # None}
  /\ dbCalls' = IF rev = "cache" THEN Len(ids) ELSE 0

\* the page loop is left: dedup and pre-filter, then getItemsDetails up to
\* its first provider request (or its return when nothing is to fetch)
EndPageLoop(items) ==
  LET ids == AllAsins(rev, items)
  IN /\ Partition(ids)
     /\ IF ToFetch(ids) = <<>>
        THEN Return(CachedOf(ids))
        ELSE /\ pc' = "batchRequest"
             /\ UNCHANGED <<outcome, scored, eligible, result>>

\* getItemsDetails is called by a caller other than searchProducts
GetItemsDetails(ids) ==
  /\ Enter("details", <<>>, 0)
  /\ IF creds
     THEN /\ Partition(ids)
          /\ scored' = <<>>
          /\ eligible' = <<>>
          /\ IF ToFetch(ids) = <<>>
             THEN /\ result' = CachedOf(ids)
                  /\ outcome' = "returned"
                  /\ pc' = "idle"
             ELSE /\ result' = <<>>
                  /\ outcome' = "none"
                  /\ pc' = "batchRequest"
          /\ UNCHANGED cache
     ELSE SettingsMissing
  /\ UNCHANGED <<envVars, auxVars, schedVars, faults>>

\* the loop header after an iteration of the page loop that did not break
NextPage(items) ==
  IF page + 1 <= MaxPages(rev)
  THEN /\ page' = page + 1
       /\ pc' = "pageSleep"
       /\ UNCHANGED <<asins, results, uncached, bi, outcome, scored, eligible, result, cachedAtLookup, dbCalls>>
  ELSE /\ page' = page + 1
       /\ EndPageLoop(items)

\* the page loop without the short-page exit: it stops on an empty page only
PageOkNoShortExit ==
  /\ pc = "pageRequest"
  /\ LET items == UpstreamPage(total, page)
         all == allItems \o items
     IN /\ log' = Append(log, SearchEntry(page, "ok", Len(items)))
        /\ allItems' = all
        /\ IF Len(items) = 0 \/ (rev = "cache" /\ Len(all) >= HardCap)
           THEN /\ page' = page
                /\ EndPageLoop(all)
           ELSE NextPage(all)
  /\ UNCHANGED <<envVars, auxVars, schedVars, cache, faults, run, prev, op, keyword, count>>

\* the SearchItems request of the page is answered with a success status
PageOk ==
  /\ pc = "pageRequest"
  /\ LET items == UpstreamPage(total, page)
         all == allItems \o items
     IN /\ log' = Append(log, SearchEntry(page, "ok", Len(items)))
        /\ allItems' = all
        /\ IF Len(items) < PageSizeRequested \/ (rev = "cache" /\ Len(all) >= HardCap)
           THEN /\ page' = page
                /\ EndPageLoop(all)
           ELSE NextPage(all)
  /\ UNCHANGED <<envVars, auxVars, schedVars, cache, faults, run, prev, op, keyword, count>>

\* a non-success status that leaves the page loop instead of continuing
PageNotOkBreaks ==
  /\ pc = "pageRequest"
  /\ faults < MaxFaults
  /\ faults' = faults + 1
  /\ log' = Append(log, SearchEntry(page, "nonok", 0))
  /\ page' = page
  /\ EndPageLoop(allItems)
  /\ UNCHANGED <<envVars, auxVars, schedVars, cache, run, prev, op, keyword, count, allItems>>

\* the SearchItems request is answered with a non-success status: continue
PageNotOk ==
  /\ pc = "pageRequest"
  /\ faults < MaxFaults
  /\ faults' = faults + 1
  /\ log' = Append(log, SearchEntry(page, "nonok", 0))
  /\ NextPage(allItems)
  /\ UNCHANGED <<envVars, auxVars, schedVars, cache, run, prev, op, keyword, count, allItems>>

\* the SearchItems request throws (network error): the outer catch rethrows
PageThrows ==
  /\ pc = "pageRequest"
  /\ faults < MaxFaults
  /\ faults' = faults + 1
  /\ log' = Append(log, SearchEntry(page, "throw", 0))
  /\ Throw
  /\ UNCHANGED <<envVars, auxVars, schedVars, cache, run, prev, op, keyword, count, page, allItems, asins, results, uncached, bi, cachedAtLookup, dbCalls>>

\* the bottom of the batch loop after a try block that ran to its end or
\* was caught: pace if a batch follows, else return to the caller
AfterBatch(res) ==
  IF bi + BatchSize < Len(uncached)
  THEN /\ pc' = "batchSleep"
       /\ UNCHANGED <<bi, outcome, scored, eligible, result>>
  ELSE /\ bi' = bi + BatchSize
       /\ Finish(res)

\* the GetItems request of the batch succeeds: parse, save, push
BatchOk ==
  /\ pc = "batchRequest"
  /\ LET batch == BatchAt(uncached, bi)
         prods == ParseBatch(rev, batch)
     IN /\ log' = Append(log, GetItemsEntry(batch, "ok"))
        /\ cache' = IF rev = "cache" THEN SaveAll(cache, prods) ELSE cache
        /\ dbCalls' = IF rev = "cache" THEN dbCalls + Len(prods) ELSE dbCalls
        /\ results' = results \o prods
        /\ AfterBatch(results \o prods)
  /\ UNCHANGED <<envVars, auxVars, schedVars, faults, run, prev, op, keyword, count, page, allItems, asins, uncached, cachedAtLookup>>

\* a non-success status that is thrown out of getItemsDetails
BatchNotOkAborts ==
  /\ pc = "batchRequest"
  /\ faults < MaxFaults
  /\ faults' = faults + 1
  /\ log' = Append(log, GetItemsEntry(BatchAt(uncached, bi), "nonok"))
  /\ Throw
  /\ UNCHANGED <<envVars, auxVars, schedVars, cache, run, prev, op, keyword, count, page, allItems, asins, results, uncached, bi, cachedAtLookup, dbCalls>>

\* the GetItems request is answered with a non-success status: continue,
\* which skips the delay at the bottom of the loop
BatchNotOk ==
  /\ pc = "batchRequest"
  /\ faults < MaxFaults
  /\ faults' = faults + 1
  /\ log' = Append(log, GetItemsEntry(BatchAt(uncached, bi), "nonok"))
  /\ bi' = bi + BatchSize
  /\ IF bi + BatchSize < Len(uncached)
     THEN /\ pc' = "batchRequest"
          /\ UNCHANGED <<outcome, scored, eligible, result>>
     ELSE Finish(results)
  /\ UNCHANGED <<envVars, auxVars, schedVars, cache, run, prev, op, keyword, count, page, allItems, asins, results, uncached, cachedAtLookup, dbCalls>>

\* the GetItems request throws: caught inside the loop
BatchThrows ==
  /\ pc = "batchRequest"
  /\ faults < MaxFaults
  /\ faults' = faults + 1
  /\ log' = Append(log, GetItemsEntry(BatchAt(uncached, bi), "throw"))
  /\ AfterBatch(results)
  /\ UNCHANGED <<envVars, auxVars, schedVars, cache, run, prev, op, keyword, count, page, allItems, asins, results, uncached, cachedAtLookup, dbCalls>>

\* the 1100 ms delay between two batches, then i += batchSize
BatchSleep ==
  /\ pc = "batchSleep"
  /\ log' = Append(log, SleepEntry)
  /\ bi' = bi + BatchSize
  /\ pc' = "batchRequest"
  /\ UNCHANGED <<envVars, auxVars, schedVars, cache, faults, run, prev, op, keyword, count, page, allItems, asins, results, uncached, outcome, scored, eligible, result, cachedAtLookup, dbCalls>>

Next ==
  \/ \E kw \in Keywords, n \in 0..MaxCount : Start(kw, n)
  \/ \E ids \in DetailRequests : GetItemsDetails(ids)
  \/ PageSleep
  \/ PageOk
  \/ PageNotOk
  \/ PageThrows
  \/ BatchOk
  \/ BatchNotOk
  \/ BatchThrows
  \/ BatchSleep

Spec == Init /\ [][Next]_vars

\* the revision with the Detail Cache alone
InitCache == Init /\ rev = "cache"

SpecCache == InitCache /\ [][Next]_vars

\* ================================================ the policy functions alone
PolicyTitles == {title1, title2, title3, title4, title5, title6, title7, title8, title9, title10, title11, title12, title13, title14, title15, title16, title17}

PolicyKeywords == {kwSecurityCamera, kwCameraMount, kwCameraCamera, kwSecurityCameraWide, kwMountTrailing, kwDoorbell, kwInstallationKit}

PolicyInit ==
  /\ rev = "cache"
  /\ creds = TRUE
  /\ total = 0
  /\ cache = [a \in Asins |-> None]
  /\ SearchIdle
  /\ SchedIdle
  /\ fillers = 0
  /\ clockOn = FALSE
  /\ RaceIdle
  /\ pTitle \in PolicyTitles
  /\ pKeyword \in PolicyKeywords
  /\ pcall = "none"
  /\ pvalue = 0

\* this.scoreProduct(product, keyword)
ScoreProductCall ==
  /\ pcall = "none"
  /\ pcall' = "scoreProduct"
  /\ pvalue' = scoreProduct([title |-> pTitle], pKeyword)
  /\ UNCHANGED <<envVars, searchVars, schedVars, raceVars, pTitle, pKeyword>>

\* this.isMainProduct(product, keyword)
IsMainProductCall ==
  /\ pcall = "none"
  /\ pcall' = "isMainProduct"
  /\ pvalue' = isMainProduct([title |-> pTitle], pKeyword)
  /\ UNCHANGED <<envVars, searchVars, schedVars, raceVars, pTitle, pKeyword>>

PolicyNext ==
  \/ ScoreProductCall
  \/ IsMainProductCall

PolicySpec == PolicyInit /\ [][PolicyNext]_vars

\* =============================================== concurrent getItemsDetails
\* the asins argument of each call
CallIds == << <<3, 2, 5>>, <<5, 1>> >>

RaceInit ==
  /\ rev = "cache"
  /\ creds = TRUE
  /\ total = 0
  /\ cache \in {[a \in Asins |-> None], Preloaded}
  /\ SearchIdle
  /\ SchedIdle
  /\ fillers = 0
  /\ clockOn = FALSE
  /\ AuxIdle

\* the loop of a call moves on from position gpos[i] of a list of length n
Advance(i, n, then) ==
  IF gpos[i] < n
  THEN /\ gpos' = [gpos EXCEPT ![i] = gpos[i] + 1]
       /\ UNCHANGED gpc
  ELSE /\ gpos' = [gpos EXCEPT ![i] = 1]
       /\ gpc' = [gpc EXCEPT ![i] = then]

\* getItemsDetails(CallIds[i]) is called: getApiSettings
RaceEnter(i) ==
  /\ gpc[i] = "idle"
  /\ gpc' = [gpc EXCEPT ![i] = "lookup"]
  /\ UNCHANGED <<envVars, searchVars, schedVars, policyVars, gpos, gunc, gres, rlog>>

\* one iteration of the cache loop: await storage.getProductDetails(asin)
RaceLookup(i) ==
  /\ gpc[i] = "lookup"
  /\ LET a == CallIds[i][gpos[i]]
         hit == GetProductDetails(cache, a) # None
         unc == IF hit THEN gunc[i] ELSE Append(gunc[i], a)
     IN /\ gres' = [gres EXCEPT ![i] = IF hit THEN Append(gres[i], a) ELSE gres[i]]
        /\ gunc' = [gunc EXCEPT ![i] = unc]
        /\ IF gpos[i] = Len(CallIds[i]) /\ unc = <<>>
           THEN Advance(i, Len(CallIds[i]), "done")
           ELSE Advance(i, Len(CallIds[i]), "request")
  /\ UNCHANGED <<envVars, searchVars, schedVars, policyVars, rlog>>

\* the GetItems request of the one batch of the call, and its answer
RaceRequest(i, status) ==
  /\ gpc[i] = "request"
  /\ rlog' = Append(rlog, [call |-> i, op |-> "fetch", ids |-> BatchAt(gunc[i], 0)])
  /\ gpc' = [gpc EXCEPT ![i] = IF status = "ok" THEN "save" ELSE "done"]
  /\ UNCHANGED <<envVars, searchVars, schedVars, policyVars, gpos, gunc, gres>>

\* one iteration of the items loop: await storage.saveProductDetails, push
RaceSave(i) ==
  /\ gpc[i] = "save"
  /\ LET a == gunc[i][gpos[i]]
     IN /\ cache' = SaveProductDetails(cache, SaveArgument(ParseItem(rev, a)))
        /\ rlog' = Append(rlog, [call |-> i, op |-> "save", ids |-> <<a>>])
        /\ gres' = [gres EXCEPT ![i] = Append(gres[i], a)]
  /\ Advance(i, Len(gunc[i]), "done")
  /\ UNCHANGED <<envVars, callVars, schedVars, policyVars, gunc>>

RaceNext ==
  \/ \E i \in Calls : RaceEnter(i)
  \/ \E i \in Calls : RaceLookup(i)
  \/ \E i \in Calls, status \in {"ok", "nonok", "throw"} : RaceRequest(i, status)
  \/ \E i \in Calls : RaceSave(i)

RaceSpec == RaceInit /\ [][RaceNext]_vars

\* ===================================== scheduler and concurrent invocations
\* the clock advances in steps of TickMs up to MaxTime, and further while a
\* timer is still to resolve
TickMs == 1100

MaxTime == 1100

\* full pages the provider answers to one invocation
MaxFullPages == 1

\* runs of checkSchedules started by init and by the interval timer
MaxChecks == 2

\* triggerKeywordGeneration calls and POST /api/keywords/:id/generate requests
MaxManual == 1

\* storage calls of checkSchedules that throw
MaxDbErrors == 1

PendingLimit == 100

\* scheduledDate and scheduledTime of the keywords, as ms on the clock
ScheduledAt == (1 :> 0) @@ (2 :> 5000)

\* pending keywords created after the keywords of KeywordIds and scheduled
\* later than the clock runs: how many there may be
FillerCounts == {0, 100}

\* the ids of S from k down: orderBy(desc(keywords.createdAt))
RECURSIVE IdsDownFrom(_, _)
IdsDownFrom(k, S) ==
  IF k < 1 THEN <<>>
  ELSE (IF k \in S THEN <<k>> ELSE <<>>) \o IdsDownFrom(k - 1, S)

\* storage.getKeywords(100, 0, "", "pending"): the newest 100 pending
\* keywords; of those, the ones of KeywordIds
getPendingKeywords ==
  LET tracked == IdsDownFrom(Cardinality(KeywordIds), {k \in KeywordIds : kstatus[k] = "pending"})
      room == IF fillers >= PendingLimit THEN 0 ELSE PendingLimit - fillers
  IN SubSeq(tracked, 1, Min(room, Len(tracked)))

SchedInit ==
  /\ rev \in Revisions
  /\ creds \in BOOLEAN
  /\ total = 0
  /\ cache = [a \in Asins |-> None]
  /\ SearchIdle
  /\ AuxIdle
  /\ SchedIdle
  /\ fillers \in FillerCounts
  /\ clockOn = FALSE

\* a run is in progress until its promise is settled
InProgress(g) == g.pc \notin {"resolved", "rejected", "settled"}

\* generateContent(keyword) is called and runs up to its first suspension:
\* searchProducts runs getApiSettings and reaches await this.sleep(1100)
BeginGenerate(k, origin) ==
  runs' = Append(runs,
    [k |-> k, origin |-> origin,
     pc |-> IF creds THEN "pageSleep" ELSE "catch",
     wake |-> IF creds /\ clockOn THEN now + PacingMs ELSE 0,
     page |-> IF creds THEN 1 ELSE 0,
     searched |-> IF creds THEN "none" ELSE "threw",
     gpt |-> FALSE, article |-> FALSE, products |-> FALSE, activity |-> "none"])

\* checkSchedules without the isProcessing guard
CheckSchedulesUnguarded(ok) ==
  /\ checks < MaxChecks
  /\ checks' = checks + 1
  /\ ok \/ dbErrors < MaxDbErrors
  /\ dbErrors' = IF ok THEN dbErrors ELSE dbErrors + 1
  /\ isProcessing' = TRUE
  /\ active' = active + 1
  /\ pending' = IF ok THEN getPendingKeywords ELSE <<>>
  /\ cpc' = "loop"
  /\ UNCHANGED <<envVars, auxVars, searchVars, now, manual, fillers, clockOn, kstatus, trig, runs, calls>>

\* checkSchedules is run by init or by the interval timer, up to the end of
\* await this.getPendingKeywords(), which returns [] when storage throws
CheckSchedules(ok) ==
  /\ checks < MaxChecks
  /\ checks' = checks + 1
  /\ IF isProcessing
     THEN /\ ok
          /\ UNCHANGED <<isProcessing, active, pending, cpc, dbErrors>>
     ELSE /\ ok \/ dbErrors < MaxDbErrors
          /\ dbErrors' = IF ok THEN dbErrors ELSE dbErrors + 1
          /\ isProcessing' = TRUE
          /\ active' = active + 1
          /\ pending' = IF ok THEN getPendingKeywords ELSE <<>>
          /\ cpc' = "loop"
  /\ UNCHANGED <<envVars, auxVars, searchVars, now, manual, fillers, clockOn, kstatus, trig, runs, calls>>

\* one iteration of the for loop of checkSchedules; ok: updateKeywordStatus
\* does not throw
CheckKeyword(ok) ==
  /\ cpc = "loop"
  /\ pending # <<>>
  /\ LET k == Head(pending)
     IN IF ScheduledAt[k] <= now
        THEN IF ok
             THEN /\ kstatus' = [kstatus EXCEPT ![k] = "processing"]
                  /\ BeginGenerate(k, "scheduler")
                  /\ UNCHANGED dbErrors
             ELSE /\ dbErrors < MaxDbErrors
                  /\ dbErrors' = dbErrors + 1
                  /\ UNCHANGED <<kstatus, runs>>
        ELSE /\ ok
             /\ UNCHANGED <<kstatus, runs, dbErrors>>
  /\ pending' = Tail(pending)
  /\ UNCHANGED <<envVars, auxVars, searchVars, now, checks, manual, fillers, clockOn, isProcessing, active, cpc, trig, calls>>

\* the loop is over: finally
CheckDone ==
  /\ cpc = "loop"
  /\ pending = <<>>
  /\ isProcessing' = FALSE
  /\ active' = active - 1
  /\ cpc' = "idle"
  /\ UNCHANGED <<envVars, auxVars, searchVars, now, checks, manual, dbErrors, fillers, clockOn, kstatus, pending, trig, runs, calls>>

\* triggerKeywordGeneration(k) up to its status test on the keyword read
TriggerRead(k) ==
  /\ manual < MaxManual
  /\ manual' = manual + 1
  /\ trig = 0
  /\ trig' = IF kstatus[k] = "pending" THEN k ELSE 0
  /\ UNCHANGED <<envVars, auxVars, searchVars, now, checks, dbErrors, fillers, clockOn, kstatus, isProcessing, active, pending, cpc, runs, calls>>

\* triggerKeywordGeneration: updateKeywordStatus, then generateContent
TriggerStart ==
  /\ trig # 0
  /\ kstatus' = [kstatus EXCEPT ![trig] = "processing"]
  /\ BeginGenerate(trig, "trigger")
  /\ trig' = 0
  /\ UNCHANGED <<envVars, auxVars, searchVars, now, checks, manual, dbErrors, fillers, clockOn, isProcessing, active, pending, cpc, calls>>

\* POST /api/keywords/:id/generate: updateKeywordStatus, then generateContent
RouteGenerate(k) ==
  /\ manual < MaxManual
  /\ manual' = manual + 1
  /\ kstatus' = [kstatus EXCEPT ![k] = "processing"]
  /\ BeginGenerate(k, "route")
  /\ UNCHANGED <<envVars, auxVars, searchVars, now, checks, dbErrors, fillers, clockOn, isProcessing, active, pending, cpc, trig, calls>>

\* time passes
Tick ==
  /\ clockOn
  /\ \/ now + TickMs <= MaxTime
     \/ \E r \in 1..Len(runs) : runs[r].pc = "pageSleep" /\ runs[r].wake > now
  /\ now' = now + TickMs
  /\ UNCHANGED <<envVars, auxVars, searchVars, checks, manual, dbErrors, fillers, clockOn, kstatus, isProcessing, active, pending, cpc, trig, runs, calls>>

CallEntry(r) == [t |-> now, r |-> r]

\* what the steps of a run leave alone
RunStepUnchanged == UNCHANGED <<envVars, auxVars, searchVars, now, checks, manual, dbErrors, fillers, clockOn, isProcessing, active, pending, cpc, trig>>

\* the timer of run r has resolved: its SearchItems request and the rest
\* of the iteration. answer is what the provider does.
SearchRequest(r, answer) ==
  /\ r \in DOMAIN runs
  /\ runs[r].pc = "pageSleep"
  /\ clockOn => now >= runs[r].wake
  /\ calls' = IF clockOn THEN <<CallEntry(r)>> ELSE calls
  /\ IF answer = "throw"
     THEN runs' = [runs EXCEPT ![r].pc = "catch", ![r].searched = "threw", ![r].page = 0, ![r].wake = 0]
     ELSE IF answer \in {"full", "nonok"} /\ runs[r].page <= MaxFullPages /\ runs[r].page < MaxPages(rev)
     THEN runs' = [runs EXCEPT ![r].page = @ + 1, ![r].wake = IF clockOn THEN now + PacingMs ELSE 0]
     ELSE runs' = [runs EXCEPT ![r].pc = "batchRequest", ![r].page = 0, ![r].wake = 0]
  /\ UNCHANGED kstatus
  /\ RunStepUnchanged

\* getItemsDetails of run r without the test for an empty product list
DetailsRequestNoEmptyTest(r, fetch, found) ==
  /\ r \in DOMAIN runs
  /\ runs[r].pc = "batchRequest"
  /\ calls' = IF clockOn /\ fetch THEN <<CallEntry(r)>> ELSE calls
  /\ runs' = [runs EXCEPT ![r].pc = "gpt", ![r].searched = IF found THEN "products" ELSE "empty"]
  /\ UNCHANGED kstatus
  /\ RunStepUnchanged

\* getItemsDetails of run r: its one GetItems request, if any id is to
\* fetch; searchProducts returns; generateContent throws on an empty list
DetailsRequest(r, fetch, found) ==
  /\ r \in DOMAIN runs
  /\ runs[r].pc = "batchRequest"
  /\ calls' = IF clockOn /\ fetch THEN <<CallEntry(r)>> ELSE calls
  /\ runs' = IF found
             THEN [runs EXCEPT ![r].pc = "gpt", ![r].searched = "products"]
             ELSE [runs EXCEPT ![r].pc = "catch", ![r].searched = "empty"]
  /\ UNCHANGED kstatus
  /\ RunStepUnchanged

\* gptService.generateContent, storage.addArticle, addProductsToArticle:
\* each returns, or throws into the catch block
WriteArticle(r, thrower) ==
  /\ r \in DOMAIN runs
  /\ runs[r].pc = "gpt"
  /\ runs' = [runs EXCEPT ![r].gpt = TRUE,
                          ![r].article = thrower \in {"addProducts", "none"},
                          ![r].products = thrower = "none",
                          ![r].pc = IF thrower = "none" THEN "setCompleted" ELSE "catch"]
  /\ UNCHANGED <<kstatus, calls>>
  /\ RunStepUnchanged

\* storage.updateKeywordStatus(keyword.id, "completed"), then addActivity
\* (article_generated), which returns (ok) or throws into the catch block
SetCompleted(r, ok) ==
  /\ r \in DOMAIN runs
  /\ runs[r].pc = "setCompleted"
  /\ kstatus' = [kstatus EXCEPT ![runs[r].k] = "completed"]
  /\ runs' = IF ok
             THEN [runs EXCEPT ![r].activity = "article_generated", ![r].pc = "resolved"]
             ELSE [runs EXCEPT ![r].pc = "catch"]
  /\ UNCHANGED calls
  /\ RunStepUnchanged

\* a catch block that leaves the status as it is
SetFailedKeepsStatus(r) ==
  /\ r \in DOMAIN runs
  /\ runs[r].pc = "catch"
  /\ runs' = [runs EXCEPT ![r].activity = "generation_failed", ![r].pc = "rejected"]
  /\ UNCHANGED <<kstatus, calls>>
  /\ RunStepUnchanged

\* catch: updateKeywordStatus(keyword.id, "failed"), addActivity
\* (generation_failed), throw error
SetFailed(r) ==
  /\ r \in DOMAIN runs
  /\ runs[r].pc = "catch"
  /\ kstatus' = [kstatus EXCEPT ![runs[r].k] = "failed"]
  /\ runs' = [runs EXCEPT ![r].activity = "generation_failed", ![r].pc = "rejected"]
  /\ UNCHANGED calls
  /\ RunStepUnchanged

\* the then and catch handlers of the route: the status is written again
RouteSettle(r) ==
  /\ r \in DOMAIN runs
  /\ runs[r].origin = "route"
  /\ runs[r].pc \in {"resolved", "rejected"}
  /\ kstatus' = [kstatus EXCEPT ![runs[r].k] = IF runs[r].pc = "resolved" THEN "completed" ELSE "failed"]
  /\ runs' = [runs EXCEPT ![r].pc = "settled"]
  /\ UNCHANGED calls
  /\ RunStepUnchanged

RunIds == 1..(Cardinality(KeywordIds) + MaxManual)

\* the continuations of run r
RunNext(r) ==
  \/ \E answer \in {"full", "short", "nonok", "throw"} : SearchRequest(r, answer)
  \/ \E fetch \in BOOLEAN, found \in BOOLEAN : DetailsRequest(r, fetch, found)
  \/ \E thrower \in {"none", "gpt", "addArticle", "addProducts"} : WriteArticle(r, thrower)
  \/ \E ok \in BOOLEAN : SetCompleted(r, ok)
  \/ SetFailed(r)
  \/ RouteSettle(r)

SchedNext ==
  \/ \E ok \in BOOLEAN : CheckSchedules(ok)
  \/ \E ok \in BOOLEAN : CheckKeyword(ok)
  \/ CheckDone
  \/ \E k \in KeywordIds : TriggerRead(k)
  \/ TriggerStart
  \/ \E k \in KeywordIds : RouteGenerate(k)
  \/ \E r \in RunIds : RunNext(r)

\* the scheduler, the manual requests and the runs, the clock not observed
SchedSpec == SchedInit /\ [][SchedNext]_vars

\* every external call of a run returns or throws, and its continuation is
\* then run by the event loop
SchedFair == SchedInit /\ [][SchedNext]_vars /\ \A r \in RunIds : WF_vars(RunNext(r))

\* the same, on the clock
PacedInit ==
  /\ rev = "cache"
  /\ creds = TRUE
  /\ total = 0
  /\ cache = [a \in Asins |-> None]
  /\ SearchIdle
  /\ AuxIdle
  /\ SchedIdle
  /\ fillers = 0
  /\ clockOn = TRUE

PacedNext == SchedNext \/ Tick

PacedSpec == PacedInit /\ [][PacedNext]_vars

\* ============================================================= properties
\* an invocation has ended (by return or by throw)
Ended == pc = "idle" /\ run > 0

Returned == Ended /\ op = "search" /\ outcome = "returned"

\* the six eligibility criteria, one by one
ScorePositive(p) == p.score > 0

IsMainTrue(p) == p.isMain = TRUE

BuyBoxTrue(p) == p.isBuyBoxWinner = TRUE

ConditionNew(p) == ToLowerCase(p.condition) = sNewLower

RankBelowLimit(p) == p.salesRank # Infinity /\ p.salesRank < 10000

AvailableType(p) ==
  /\ "availabilityType" \in DOMAIN p
  /\ ToUpperCase(p.availabilityType) \in {sNOW, sINSTOCK}

Criteria(p) == <<ScorePositive(p), IsMainTrue(p), BuyBoxTrue(p), ConditionNew(p), RankBelowLimit(p), AvailableType(p)>>

AllSix(p) == \A k \in 1..6 : Criteria(p)[k]

FailsOnly(p, k) == \A j \in 1..6 : Criteria(p)[j] <=> (j # k)

\* C1: a scored record passes the eligibility filter iff score > 0, isMain,
\* isBuyBoxWinner, condition "new", salesRank below 10000 and availability
\* NOW or IN_STOCK all hold; so every returned product satisfies all six and
\* a record failing exactly one of them is never returned.
EligibilityIsStrictAnd ==
  Returned =>
    /\ Range(eligible) = {p \in Range(scored) : AllSix(p)}
    /\ \A i \in 1..Len(result) : AllSix(result[i])
    /\ \A p \in Range(scored) : (\E k \in 1..6 : FailsOnly(p, k)) => p \notin Range(result)

\* a run that returned products while, for each of the six criteria, a scored
\* record failed exactly that one
EligibilityWitness ==
  /\ Returned
  /\ result # <<>>
  /\ \A k \in 1..6 : \E p \in Range(scored) : FailsOnly(p, k) /\ p \notin Range(result)

\* C2: the returned list is ordered by score, descending, and within equal
\* scores by salesRank, ascending.
SortedByScoreThenRank ==
  Returned =>
    \A i, j \in 1..Len(result) :
      i < j => /\ result[i].score >= result[j].score
               /\ (result[i].score = result[j].score => result[i].salesRank <= result[j].salesRank)

ReturnedAsins == [i \in 1..Len(result) |-> result[i].asin]

\* C3: of two returned products with the same score and salesRank the
\* Prime-eligible one comes first, and two runs over the same upstream
\* responses with the same keyword and count return the same list in the
\* same order.
PrimeTieBreakDeterministic ==
  Returned =>
    /\ \A i, j \in 1..Len(result) :
         (i < j /\ result[i].score = result[j].score /\ result[i].salesRank = result[j].salesRank)
           => (result[j].isPrimeEligible => result[i].isPrimeEligible)
    /\ (prev # None /\ Clean(log))
         => LET before == prev[1]
            IN (before.clean /\ before.outcome = "returned" /\ before.keyword = keyword /\ before.count = count)
                 => [i \in 1..Len(before.result) |-> before.result[i].asin] = ReturnedAsins

\* C4: the returned list is the first min(count, E) entries of the sorted
\* eligible list, and the invocation throws only when the credentials are
\* missing or a search-page request threw, never for a short result.
ReturnsFirstCount ==
  /\ Returned =>
       /\ Len(result) = Min(count, Len(eligible))
       /\ Len(result) <= count
       /\ \A i \in 1..Len(result) : result[i] = eligible[i]
  /\ (Ended /\ outcome = "error") =>
       \/ ~creds
       \/ (log # <<>> /\ log[Len(log)].op = "search" /\ log[Len(log)].status = "throw")

\* fewer products were eligible than asked for, and all of them were returned
ShortResultWitness ==
  /\ Returned
  /\ Len(eligible) > 0
  /\ Len(eligible) < count
  /\ result = eligible

\* C5: when no search page yielded a raw candidate, the invocation does not
\* return (an empty array); it signals the condition instead.
NoCandidatesSignalled == ~(Returned /\ allItems = <<>>)

\* C6: a failed first search-page request (thrown or non-success status)
\* makes the invocation fail.
FirstPageFailureIsHard ==
  (Ended /\ \E i \in 1..Len(log) : log[i].op = "search" /\ log[i].page = 1 /\ log[i].status # "ok")
    => outcome = "error"

\* the raw candidates are those of the successful pages, in page order
RECURSIVE ItemsOfOkPages(_)
ItemsOfOkPages(l) ==
  IF l = <<>> THEN <<>>
  ELSE ItemsOfOkPages(SubSeq(l, 1, Len(l) - 1))
       \o (IF l[Len(l)].op = "search" /\ l[Len(l)].status = "ok" THEN UpstreamPage(total, l[Len(l)].page) ELSE <<>>)

\* C7: a non-success status of a search page after the first does not abort:
\* the page adds no candidate, the next page is requested unless the page
\* maximum is reached, and the candidates of the other pages are processed.
LaterNonOkPageIsSkipped ==
  [][(pc = "pageRequest" /\ page > 1 /\ log' = Append(log, SearchEntry(page, "nonok", 0)))
       => /\ outcome' # "error"
          /\ allItems' = allItems
          /\ allItems' = ItemsOfOkPages(log')
          /\ page < MaxPages(rev) => (pc' = "pageSleep" /\ page' = page + 1)
          /\ page >= MaxPages(rev) => (asins' = AllAsins(rev, allItems) /\ pc' \in {"batchRequest", "idle"})
    ]_vars

\* a page after the first was refused, a later page succeeded, and products
\* were returned
LaterNonOkWitness ==
  /\ Returned
  /\ result # <<>>
  /\ \E i, j \in 1..Len(log) :
       /\ i < j
       /\ log[i].op = "search" /\ log[i].status = "nonok" /\ log[i].page > 1
       /\ log[j].op = "search" /\ log[j].status = "ok" /\ log[j].n > 0

\* C8: a thrown page or batch request is skipped like a refused one; only a
\* throw of the first page (or first batch) makes the invocation fail.
ThrownRequestIsSkipped ==
  (Ended /\ creds /\ outcome = "error") =>
    \A i \in 1..Len(log) :
      (log[i].op = "search" /\ log[i].status = "throw") => log[i].page = 1

\* C9: after a successful search page with fewer than 10 items no further
\* search-page request is issued in the invocation.
ShortPageStopsPaging ==
  \A i, j \in 1..Len(log) :
    (i < j /\ log[i].op = "search" /\ log[i].status = "ok" /\ log[i].n < 10)
      => log[j].op # "search"

\* a short page after the first was received and the invocation went on to
\* fetch details
ShortPageWitness ==
  \E i, j \in 1..Len(log) :
    /\ i < j
    /\ log[i].op = "search" /\ log[i].status = "ok" /\ log[i].n < 10 /\ log[i].page > 1
    /\ log[j].op = "getitems"

SearchEntries == SelectSeq(log, LAMBDA e : e.op = "search")

\* C10: at most the maximum number of search pages is requested, numbered
\* 1, 2, ... in order, none once 50 raw candidates are collected, and the
\* raw candidates never exceed 50 (no page holds more than 10 items).
PageLoopBounded ==
  /\ Len(SearchEntries) <= MaxPages(rev)
  /\ \A k \in 1..Len(SearchEntries) : SearchEntries[k].page = k
  /\ \A k \in 1..Len(SearchEntries) :
       Len(ItemsOfOkPages(SubSeq(SearchEntries, 1, k - 1))) < 50
  /\ Len(allItems) <= 50


\* ------------------------------------------------------- detail requests
GetItemsEntries == SelectSeq(log, LAMBDA e : e.op = "getitems")

RECURSIVE ConcatIds(_)
ConcatIds(es) == IF es = <<>> THEN <<>> ELSE es[1].ids \o ConcatIds(Tail(es))

\* the ids of the bulk detail requests of the invocation, in request order
RequestedIds == ConcatIds(GetItemsEntries)

IdsOnce(s) == \A i, j \in 1..Len(s) : i # j => s[i] # s[j]

FirstIndex(s, x) == CHOOSE i \in 1..Len(s) : s[i] = x /\ \A j \in 1..(i - 1) : s[j] # x

\* C11: in a searchProducts invocation the ids passed to getItemsDetails
\* hold each id once, in the order of first appearance among the raw
\* candidates; no id is requested for detail twice; the returned list holds
\* no two products with the same id.
DetailIdsUnique ==
  op = "search" =>
    /\ IdsOnce(asins)
    /\ \A i, j \in 1..Len(asins) : i < j => FirstIndex(allItems, asins[i]) < FirstIndex(allItems, asins[j])
    /\ IdsOnce(RequestedIds)
    /\ IdsOnce(ReturnedAsins)

\* C12: no bulk detail request carries an id that was in the Detail Cache
\* when getItemsDetails began; when every input id was cached, no bulk
\* request is issued and the output is exactly the cached records.
CachedIdsNotRequested ==
  /\ \A i \in 1..Len(RequestedIds) : RequestedIds[i] \notin cachedAtLookup
  /\ (Ended /\ outcome = "returned" /\ Range(asins) \subseteq cachedAtLookup)
       => /\ GetItemsEntries = <<>>
          /\ results = CachedResults(cache, asins)

CeilDiv(n, d) == (n + d - 1) \div d

\* C13: when getItemsDetails has returned, its bulk requests are
\* ceil(n/10) consecutive slices of the n uncached ids, in input order, of
\* 10 ids each but for the last, whatever the outcomes of the requests.
BatchesAreConsecutiveSlices ==
  (Ended /\ outcome = "returned") =>
    /\ Len(GetItemsEntries) = CeilDiv(Len(uncached), BatchSize)
    /\ \A i \in 1..Len(GetItemsEntries) :
         GetItemsEntries[i].ids = SubSeq(uncached, (i - 1) * BatchSize + 1, Min(i * BatchSize, Len(uncached)))
    /\ RequestedIds = uncached

ThreeBatchesWitness ==
  /\ Ended /\ outcome = "returned"
  /\ Len(uncached) = 25
  /\ [i \in 1..Len(GetItemsEntries) |-> Len(GetItemsEntries[i].ids)] = <<10, 10, 5>>
  /\ \E i \in 1..Len(GetItemsEntries) : GetItemsEntries[i].status # "ok"

\* the step is a bulk detail request that fails
FailedBatchStep ==
  /\ Len(log') = Len(log) + 1
  /\ log'[Len(log')].op = "getitems"
  /\ log'[Len(log')].status # "ok"

FailedEntries == SelectSeq(GetItemsEntries, LAMBDA e : e.status # "ok")

OkEntries == SelectSeq(GetItemsEntries, LAMBDA e : e.status = "ok")

RECURSIVE ParsedOf(_)
ParsedOf(es) == IF es = <<>> THEN <<>> ELSE ParseBatch(rev, es[1].ids) \o ParsedOf(Tail(es))

\* the rows of the ids that were cached as getItemsDetails began
CachedPart ==
  LET hit == SelectSeq(asins, LAMBDA a : a \in cachedAtLookup)
  IN [i \in 1..Len(hit) |-> GetProductDetails(cache, hit[i])[1]]

\* C14: a failed bulk request raises no error, adds nothing to the output
\* and writes no cache entry; the next batch, if any, is still requested;
\* at the return no id of a failed batch is in the output, which is the
\* cached records followed by the records of the successful batches.
FailedBatchIsSkipped ==
  [][ /\ FailedBatchStep
         => /\ outcome' # "error"
            /\ results' = results
            /\ cache' = cache
            /\ dbCalls' = dbCalls
            /\ IF bi + BatchSize < Len(uncached)
               THEN pc' \in {"batchSleep", "batchRequest"}
               ELSE outcome' = "returned"
      /\ (pc' = "idle" /\ outcome' = "returned")
         => /\ \A i \in 1..Len(results') : results'[i].asin \notin Range(ConcatIds(FailedEntries'))
            /\ results' = CachedPart' \o ParsedOf(OkEntries')
    ]_vars

FailedBatchWitness ==
  /\ Ended /\ outcome = "returned"
  /\ FailedEntries # <<>>
  /\ OkEntries # <<>>
  /\ GetItemsEntries[1].status # "ok"
  /\ cachedAtLookup # {}
  /\ Len(results) > Cardinality(cachedAtLookup)

\* C15: every record getItemsDetails fetched has a Detail Cache row with
\* its id, and an id fetched by the invocation before is found in the cache
\* and not requested again.
FetchedIsCached ==
  /\ \A i \in 1..Len(results) :
       /\ GetProductDetails(cache, results[i].asin) # None
       /\ GetProductDetails(cache, results[i].asin)[1].asin = results[i].asin
  /\ (prev # None /\ pc \in {"batchRequest", "batchSleep", "idle"} /\ outcome # "error")
       => \A a \in prev[1].fetched \cap Range(asins) :
            /\ a \in cachedAtLookup
            /\ a \notin Range(RequestedIds)
            /\ \E i \in 1..Len(results) : results[i].asin = a

FetchedAgainWitness ==
  /\ Ended /\ outcome = "returned"
  /\ prev # None
  /\ prev[1].fetched \cap Range(asins) # {}
  /\ Fetched # {}

\* ----------------------------------------------------------------- pacing
\* C16: between two successive search-page requests, and between two
\* successive bulk detail requests, the pacing delay is taken.
PacedWithinLoops ==
  \A i \in 1..(Len(log) - 1) :
    ~(log[i].op # "sleep" /\ log[i + 1].op = log[i].op)

\* C17: no pacing delay comes before the first search-page request of
\* searchProducts, nor before the first bulk request of getItemsDetails.
NoDelayBeforeFirstCall ==
  \A i \in 2..Len(log) :
    (log[i].op # "sleep" /\ \A j \in 1..(i - 1) : log[j].op # log[i].op)
      => log[i - 1].op # "sleep"

\* C18: in one searchProducts invocation a pacing delay lies between every
\* two consecutive provider requests, the last search-page request and the
\* first bulk detail request included.
EveryCallPaced ==
  op = "search" =>
    \A i \in 1..(Len(log) - 1) : log[i].op # "sleep" => log[i + 1].op = "sleep"

\* C19: two consecutive provider requests of different invocations are at
\* least the pacing delay apart.
ConcurrentCallsPaced ==
  [][ (calls # <<>> /\ calls' # calls /\ calls'[1].r # calls[1].r)
        => calls'[1].t - calls[1].t >= PacingMs ]_vars

\* C20: with a credential missing, an invocation ends at once with an
\* error: no request, no delay, no storage call, no cache change.
MissingCredentialsFailFast ==
  [][ ~creds =>
        /\ pc' = "idle"
        /\ log' = <<>>
        /\ dbCalls' = 0
        /\ cache' = cache
        /\ faults' = faults
        /\ run' # run => (outcome' = "error" /\ result' = <<>>)
    ]_vars

MissingCredentialsWitness ==
  /\ ~creds
  /\ Ended /\ op = "details" /\ outcome = "error"
  /\ prev # None /\ prev[1].op = "search" /\ prev[1].outcome = "error"
  /\ cache = Preloaded


\* ------------------------------------------------------ policy functions
\* the words of a keyword: its lowercased pieces between whitespace
WordsOf(kw) == {w \in Range(Split(ToLowerCase(kw))) : w # <<>>}

\* C21: scoreProduct is the number of distinct words of the lowercased
\* keyword that occur in the lowercased title; it is 0 exactly when no word
\* occurs; "Wireless Security Camera" scores 2 for "security camera".
ScoreCountsDistinctWords ==
  pcall = "scoreProduct" =>
    /\ pvalue = Cardinality({w \in WordsOf(pKeyword) : Includes(ToLowerCase(pTitle), w)})
    /\ (pvalue = 0) <=> ~\E w \in WordsOf(pKeyword) : Includes(ToLowerCase(pTitle), w)
    /\ (pTitle = title1 /\ pKeyword = kwSecurityCamera) => pvalue = 2

KeywordIsAccessory(kw) == \E ind \in {sMount, sAccessory, sInstallationKit} : Includes(ToLowerCase(kw), ind)

TitleIsAccessory(t) == \E ind \in {sMount, sAccessory, sInstallationKit} : Includes(ToLowerCase(t), ind)

\* C22: isMainProduct is true for every title when the lowercased keyword
\* contains an accessory indicator; otherwise it is true exactly when the
\* lowercased title contains none. "Camera Wall Mount" is not main for
\* "Security Camera" and is main for "camera mount".
MainProductRule ==
  pcall = "isMainProduct" =>
    /\ KeywordIsAccessory(pKeyword) => pvalue = TRUE
    /\ ~KeywordIsAccessory(pKeyword) => (pvalue = ~TitleIsAccessory(pTitle))
    /\ (pTitle = title6 /\ pKeyword = kwSecurityCamera) => pvalue = FALSE
    /\ (pTitle = title6 /\ pKeyword = kwCameraMount) => pvalue = TRUE

MainProductWitness ==
  /\ pcall = "isMainProduct"
  /\ pTitle = title17
  /\ pKeyword = kwDoorbell
  /\ pvalue = FALSE


\* getItemsDetails has been entered by the running searchProducts
DetailResolutionReached ==
  /\ op = "search"
  /\ \/ pc \in {"batchRequest", "batchSleep"}
     \/ (pc = "idle" /\ run > 0 /\ outcome = "returned")

\* the candidate's title holds the word mount or accessory
AccessoryWordInTitle(item) ==
  \E w \in {sMount, sAccessory} : MatchesWord(ToLowerCase(OrElse(item.title, <<>>)), w)

\* C23: when the keyword itself contains an accessory indicator, a raw
\* candidate in stock with a price whose title holds the word mount or
\* accessory is among the ids passed to detail resolution.
AccessorySearchNotBlocked ==
  (DetailResolutionReached /\ KeywordIsAccessory(keyword)) =>
    \A a \in Range(allItems) :
      (InStockWithPrice(SearchItem(a)) /\ AccessoryWordInTitle(SearchItem(a))) => a \in Range(asins)

ProductFields == {"title", "description", "imageUrl", "price", "isBuyBoxWinner", "isPrimeEligible", "condition", "availabilityType", "salesRank", "affiliateLink"}

\* C25: the record getItemsDetails returns for an id it found in the
\* Detail Cache has, field by field, the values of the record parsed when
\* the id was fetched.
CacheTransparent ==
  \A i \in 1..Len(results) :
    results[i].asin \in cachedAtLookup
      => \A f \in ProductFields : Get(results[i], f) = Get(ParseItem(rev, results[i].asin), f)


\* C24: a row of the Detail Cache is never changed or removed, an id that
\* has a row is in no GetItems request, and no row is saved for it again.
CacheEntriesImmutable ==
  [][ /\ \A a \in Asins : cache[a] # None => cache'[a] = cache[a]
      /\ rlog' # rlog => \A a \in Range(rlog'[Len(rlog')].ids) : cache[a] = None
    ]_vars

\* C26: at most one execution of checkSchedules is active; a check that is
\* triggered while another is active reads and updates nothing; when a
\* check ends, with or without an error, isProcessing is false again.
OneCheckAtATime ==
  [][ /\ active' <= 1
      /\ isProcessing' <=> active' = 1
      /\ (checks' # checks /\ isProcessing)
           => UNCHANGED <<kstatus, pending, cpc, runs, active, isProcessing, dbErrors>>
      /\ active' < active => ~isProcessing' ]_vars

\* a check was triggered while the first one was at the head of its loop
SkippedCheckWitness ==
  /\ checks = 2
  /\ cpc = "loop"
  /\ pending = <<2, 1>>
  /\ dbErrors = 0
  /\ manual = 0
  /\ runs = <<>>
  /\ \A k \in KeywordIds : kstatus[k] = "pending"

\* C27: generateContent is started for a keyword only while its status is
\* "pending", so no two runs for one keyword are in progress at a time.
OneRunPerKeyword ==
  \A i, j \in DOMAIN runs :
    (i < j /\ InProgress(runs[i]) /\ InProgress(runs[j])) => runs[i].k # runs[j].k

\* C28: a keyword set to "processing" is "completed" or "failed" later on,
\* and it becomes "completed" only with the article and its products stored.
ProcessingEnds ==
  /\ \A k \in KeywordIds :
       (kstatus[k] = "processing") ~> (kstatus[k] \in {"completed", "failed"})
  /\ [][ \A k \in KeywordIds :
           (kstatus'[k] = "completed" /\ kstatus[k] # "completed")
             => \E i \in DOMAIN runs' :
                  runs'[i].k = k /\ runs'[i].article /\ runs'[i].products ]_vars

\* both keywords were processed: one run stored its article, the other failed
BothEndedWitness ==
  /\ Len(runs) = 2
  /\ \A i \in DOMAIN runs : ~InProgress(runs[i])
  /\ kstatus[1] = "completed"
  /\ kstatus[2] = "failed"

\* C29: once a check has run to its end without a storage error, no keyword
\* that is due is still "pending", whatever other keywords are pending.
DueKeywordsStarted ==
  (checks >= 1 /\ cpc = "idle" /\ dbErrors = 0)
    => \A k \in KeywordIds : ScheduledAt[k] <= now => kstatus[k] # "pending"

\* C30: a run whose searchProducts returned no product or threw calls no
\* text generation and stores no article and no product; it sets the
\* keyword to "failed", records generation_failed and rejects.
EmptySearchFails ==
  [][ \A r \in DOMAIN runs' :
        LET g == runs'[r]
        IN g.searched \in {"empty", "threw"} =>
             /\ ~g.gpt /\ ~g.article /\ ~g.products
             /\ g.pc \in {"catch", "rejected", "settled"}
             /\ g.pc # "catch" => g.activity = "generation_failed"
             /\ (r \in DOMAIN runs /\ runs[r].pc = "catch" /\ g.pc # "catch")
                  => (g.pc = "rejected" /\ kstatus'[g.k] = "failed") ]_vars

\* a run found no product and has rejected
EmptySearchWitness ==
  \E r \in DOMAIN runs :
    /\ runs[r].searched = "empty"
    /\ runs[r].pc = "rejected"
    /\ runs[r].activity = "generation_failed"
    /\ kstatus[runs[r].k] = "failed"

====
